---- MODULE Spec2Model ----
(***************************************************************************)
(* Model of static/script.js of the Vex AI Assistant front end: the        *)
(* command console (sendCmd), the launch handler, the theme toggle and     *)
(* the start-chat button, as a state machine over the DOM state they       *)
(* read and write.  Every action is one synchronous run of a listener or   *)
(* of the continuation of an async handler after an await.                 *)
(***************************************************************************)
EXTENDS Integers, Sequences, FiniteSets, Bags, TLC

VARIABLES
    inputValue,     \* input.value (#cmd-input)
    inputFocused,   \* whether #cmd-input has the focus
    replyText,      \* replyEl.textContent
    replyColor,     \* replyEl.style.color
    sendDisabled,   \* sendBtn.disabled
    bodyLight,      \* document.body.classList.contains("light")
    heroLight,      \* hero.classList.contains("light")
    cmd,            \* the bag of sendCmd invocations waiting at an await
    launch,         \* the bag of launch handlers waiting at an await
    uncaught,       \* some handler's promise was rejected (error left a handler)
    sections,       \* offsetTop and offsetHeight of the section of each nav link
    scrollY,        \* window.scrollY at the last scroll event
    active,         \* the nav links whose classList contains "active"
    scrollGoal      \* <<top>> of the last window.scrollTo call, <<>> if none

\* what the navigation listeners read and write
navVars == <<sections, scrollY, active, scrollGoal>>

vars == <<inputValue, inputFocused, replyText, replyColor, sendDisabled,
          bodyLight, heroLight, cmd, launch, uncaught, navVars>>

(***************************************************************************)
(* Bounds of the model.                                                    *)
(***************************************************************************)
MaxCmdInFlight == 2
MaxLaunchInFlight == 1
NumLinks == 2
MaxTopSteps == 2
MaxHeightSteps == 2
MaxScrollSteps == 3

(***************************************************************************)
(* Text.  A text is a sequence of lexemes; the empty text is <<>>.         *)
(* A word lexeme stands for its characters, a str lexeme for a JSON string *)
(* literal with its quotes, the others for JSON punctuation.               *)
(***************************************************************************)
W(s) == [t |-> "word", v |-> s]
Str(s) == [t |-> "str", v |-> s]
LBrace == [t |-> "{", v |-> ""]
RBrace == [t |-> "}", v |-> ""]
Colon == [t |-> ":", v |-> ""]
Comma == [t |-> ",", v |-> ""]
NullTok == [t |-> "null", v |-> ""]

\* the characters of a string literal, without the quotes
StrContent(tok) == IF tok.v = "" THEN <<>> ELSE <<W(tok.v)>>

(***************************************************************************)
(* JavaScript values: undefined, null, strings and plain objects.          *)
(***************************************************************************)
JUndefined == [k |-> "undefined", s |-> <<>>, props |-> <<>>]
JNull == [k |-> "null", s |-> <<>>, props |-> <<>>]
JString(text) == [k |-> "string", s |-> text, props |-> <<>>]
JObject(props) == [k |-> "object", s |-> <<>>, props |-> props]

Nullish(v) == v.k \in {"undefined", "null"}
Truthy(v) == ~Nullish(v) /\ ~(v.k = "string" /\ v.s = <<>>)
\* a ?? b
Coalesce(a, b) == IF Nullish(a) THEN b ELSE a
\* a || b
OrElse(a, b) == IF Truthy(a) THEN a ELSE b

\* the text a value becomes when it is assigned to textContent or
\* concatenated to a string
ToText(v) ==
    CASE v.k = "string" -> v.s
      [] v.k = "null" -> <<W("null")>>
      [] v.k = "undefined" -> <<W("undefined")>>
      [] OTHER -> <<W("[object Object]")>>

\* v?.key : undefined on null and undefined, the last member named key of
\* an object, undefined on a string
RECURSIVE LookUp(_, _, _)
LookUp(props, key, i) ==
    IF i = 0 THEN JUndefined
    ELSE IF props[i][1] = key THEN props[i][2]
    ELSE LookUp(props, key, i - 1)

GetProp(v, key) ==
    IF v.k = "object" THEN LookUp(v.props, key, Len(v.props)) ELSE JUndefined

(***************************************************************************)
(* JSON.parse on the lexemes of a text: null, a string literal, or an      *)
(* object of string and null members.  Anything else is a SyntaxError.     *)
(***************************************************************************)
IsScalarTok(tok) == tok.t \in {"str", "null"}
ScalarOf(tok) == IF tok.t = "str" THEN JString(StrContent(tok)) ELSE JNull

ParseFail == [ok |-> FALSE, val |-> JUndefined]

\* members: str : scalar ( , str : scalar )*
RECURSIVE ParseMembers(_, _)
ParseMembers(toks, acc) ==
    IF Len(toks) < 3 THEN ParseFail
    ELSE IF ~(toks[1].t = "str" /\ toks[2] = Colon /\ IsScalarTok(toks[3]))
    THEN ParseFail
    ELSE LET acc2 == Append(acc, <<toks[1].v, ScalarOf(toks[3])>>) IN
         IF Len(toks) = 3 THEN [ok |-> TRUE, val |-> JObject(acc2)]
         ELSE IF toks[4] = Comma
         THEN ParseMembers(SubSeq(toks, 5, Len(toks)), acc2)
         ELSE ParseFail

JSONParse(text) ==
    IF Len(text) = 1 /\ IsScalarTok(text[1])
    THEN [ok |-> TRUE, val |-> ScalarOf(text[1])]
    ELSE IF Len(text) >= 2 /\ text[1] = LBrace /\ text[Len(text)] = RBrace
    THEN IF Len(text) = 2 THEN [ok |-> TRUE, val |-> JObject(<<>>)]
         ELSE ParseMembers(SubSeq(text, 2, Len(text) - 1), <<>>)
    ELSE ParseFail

(***************************************************************************)
(* What the environment supplies: typed input, response heads and bodies,  *)
(* and the values a rejected promise carries.                              *)
(***************************************************************************)
Whitespace == {" "}
Inputs == { <<>>, <<" ", " ">>, <<" ", "a", " ">> }

\* String.prototype.trim
RECURSIVE TrimStart(_)
TrimStart(s) ==
    IF s # <<>> /\ Head(s) \in Whitespace THEN TrimStart(Tail(s)) ELSE s

RECURSIVE TrimEnd(_)
TrimEnd(s) ==
    IF s # <<>> /\ s[Len(s)] \in Whitespace
    THEN TrimEnd(SubSeq(s, 1, Len(s) - 1)) ELSE s

\* faulty variant: the input is used untrimmed
TrimNone(s) == s

Trim(s) == TrimEnd(TrimStart(s))

\* a response before its body is read: status and status phrase
NoHead == [status |-> 0, statusText |-> <<>>]
Heads ==
    { [status |-> 200, statusText |-> <<W("OK")>>],
      [status |-> 500, statusText |-> <<W("Internal Server Error")>>] }

\* Response.ok
ResOk(res) == res.status >= 200 /\ res.status <= 299

EmptyBody == <<>>
PlainBody == <<W("ok")>>
HelloBody == <<LBrace, Str("reply"), Colon, Str("Hello"), RBrace>>
EmptyReplyBody == <<LBrace, Str("reply"), Colon, Str(""), RBrace>>
NullReplyBody == <<LBrace, Str("reply"), Colon, NullTok, RBrace>>
StatusBody == <<LBrace, Str("status"), Colon, Str("Launched"), RBrace>>
BothBody ==
    <<LBrace, Str("status"), Colon, Str(""), Comma,
      Str("reply"), Colon, Str("boom"), RBrace>>
NullBody == <<NullTok>>
TruncatedBody == <<LBrace, Str("reply"), Colon>>
Bodies ==
    { EmptyBody, PlainBody, HelloBody, EmptyReplyBody, NullReplyBody,
      StatusBody, BothBody, NullBody, TruncatedBody }

\* what a promise is rejected with: an Error object or a bare string
NoErr == [k |-> "none", name |-> "", message |-> <<>>]
JError(name, message) == [k |-> "Error", name |-> name, message |-> message]
JThrownString(text) == [k |-> "string", name |-> "", message |-> text]
FetchErrors ==
    { JError("TypeError", <<W("Failed to fetch")>>),
      JThrownString(<<W("offline")>>) }
BodyErrors == { JError("TypeError", <<W("body stream already read")>>) }
SyntaxErr == JError("SyntaxError", <<W("Unexpected token")>>)
NullStatusErr ==
    JError("TypeError", <<W("Cannot read properties of null")>>)

\* err.message
ErrMessage(err) ==
    IF err.k = "Error" THEN JString(err.message) ELSE JUndefined
\* the value err itself, as it is concatenated to a string
ErrValue(err) ==
    IF err.k = "Error"
    THEN JString(IF err.message = <<>> THEN <<W(err.name)>>
                 ELSE <<W(err.name), W(": ")>> \o err.message)
    ELSE JString(err.message)

(***************************************************************************)
(* showReply and the messages of the handlers.                             *)
(***************************************************************************)
ErrorColor == "#ff8a8a"
LightAccent == "#035b9d"
DarkAccent == "#8fffe0"
Accent(light) == IF light THEN LightAccent ELSE DarkAccent

ValidationMsg == <<W("Please type a command.")>>
ThinkingMsg == <<W("Jarvis - thinking...")>>
NoReplyMsg == <<W("(no reply)")>>
LaunchingMsg == <<W("Launching assistant...")>>
LaunchIssuedMsg == <<W("Launch issued")>>

\* faulty variant: the accent colour of the dark theme in both themes
showReplyDarkOnly(text, isError, light) ==
    [text |-> text,
     color |-> IF isError THEN ErrorColor ELSE DarkAccent,
     threw |-> FALSE]

\* what showReply(text, isError) leaves in replyEl, under the theme light
showReply(text, isError, light) ==
    [text |-> text,
     color |-> IF isError THEN ErrorColor ELSE Accent(light),
     threw |-> FALSE]

(***************************************************************************)
(* sendCmd after the body is read (the parse, the two display branches),   *)
(* its catch clause, and the same for the launch handler.                  *)
(***************************************************************************)
\* faulty variant: the raw text takes priority over the reply field
SendCmdReplyTextFirst(res, text, light) ==
    LET parsed == JSONParse(text)
        data == IF parsed.ok THEN parsed.val ELSE JNull
        reply == GetProp(data, "reply")
    IN  IF ~ResOk(res)
        THEN showReply(
                 <<W("Server error "), W(ToString(res.status)), W(": ")>>
                 \o ToText(OrElse(OrElse(JString(text), reply),
                                  JString(res.statusText))),
                 TRUE, light)
        ELSE showReply(
                 ToText(Coalesce(Coalesce(JString(text), reply),
                                 JString(NoReplyMsg))),
                 FALSE, light)

\* faulty variant: res.ok is not looked at
SendCmdReplyIgnoresStatus(res, text, light) ==
    LET parsed == JSONParse(text)
        data == IF parsed.ok THEN parsed.val ELSE JNull
        reply == GetProp(data, "reply")
    IN  showReply(
            ToText(Coalesce(Coalesce(reply, JString(text)),
                            JString(NoReplyMsg))),
            FALSE, light)

SendCmdReply(res, text, light) ==
    LET parsed == JSONParse(text)
        data == IF parsed.ok THEN parsed.val ELSE JNull
        reply == GetProp(data, "reply")
    IN  IF ~ResOk(res)
        THEN showReply(
                 <<W("Server error "), W(ToString(res.status)), W(": ")>>
                 \o ToText(OrElse(OrElse(reply, JString(text)),
                                  JString(res.statusText))),
                 TRUE, light)
        ELSE showReply(
                 ToText(Coalesce(Coalesce(reply, JString(text)),
                                 JString(NoReplyMsg))),
                 FALSE, light)

\* faulty variant: the catch clause shows the prefix alone
SendCmdCatchNoMessage(err, light) ==
    showReply(<<W("Network error: ")>>, TRUE, light)

SendCmdCatch(err, light) ==
    showReply(<<W("Network error: ")>>
              \o ToText(OrElse(ErrMessage(err), ErrValue(err))),
              TRUE, light)

LaunchCatch(e, light) ==
    showReply(<<W("Launch failed: ")>>
              \o ToText(OrElse(ErrMessage(e), ErrValue(e))),
              TRUE, light)

\* faulty variant: the status field of the response is never shown
LaunchReplyDefaultOnly(text, light) ==
    LET parsed == JSONParse(text)
        j == parsed.val
    IN  IF ~parsed.ok THEN LaunchCatch(SyntaxErr, light)
        ELSE IF Nullish(j) THEN LaunchCatch(NullStatusErr, light)
        ELSE showReply(LaunchIssuedMsg, FALSE, light)

\* after r.json() has read the body text: the parse of r.json(), j.status
LaunchReply(text, light) ==
    LET parsed == JSONParse(text)
        j == parsed.val
    IN  IF ~parsed.ok THEN LaunchCatch(SyntaxErr, light)
        ELSE IF Nullish(j) THEN LaunchCatch(NullStatusErr, light)
        ELSE showReply(
                 ToText(OrElse(GetProp(j, "status"), JString(LaunchIssuedMsg))),
                 FALSE, light)

(***************************************************************************)
(* The navigation bar: the links, the sections they point to, and the      *)
(* positions the window scrolls through.  Offsets are multiples of the     *)
(* margin of the scroll listener, so that its comparisons meet equality.   *)
(***************************************************************************)
SpyMargin == 100
NavOffset == 80

Links == 1..NumLinks
Section(top, height) == [top |-> top, height |-> height]
SectionShapes ==
    { Section(t * SpyMargin, h * SpyMargin) :
          t \in 0..MaxTopSteps, h \in 1..MaxHeightSteps }
Layouts == [Links -> SectionShapes]
StackedLayout == [l \in Links |-> Section((l - 1) * SpyMargin, SpyMargin)]

\* the values of window.scrollY at a scroll event: on a section boundary
\* less the margin, or where a click on a link scrolls to
ScrollYs ==
    { k * SpyMargin : k \in 0..MaxScrollSteps }
    \cup { k * SpyMargin + (SpyMargin - NavOffset) : k \in 0..MaxScrollSteps }

\* faulty variant: the lower edge of the section is counted in
InViewInclusive(section, fromTop) ==
    /\ section.top <= fromTop
    /\ section.top + section.height >= fromTop

\* the condition of the scroll listener on one link's section
InView(section, fromTop) ==
    /\ section.top <= fromTop
    /\ section.top + section.height > fromTop

(***************************************************************************)
(* State.  The page loads in the dark theme, nothing typed or shown.        *)
(***************************************************************************)
\* an async handler suspended at an await: where, and the response it holds
Call(pc, res) == [pc |-> pc, res |-> res]

Waiting(calls) == BagToSet(calls)
Replace(calls, old, new) == (calls (-) SetToBag({old})) (+) SetToBag(new)


InitConsole ==
    /\ inputValue = <<>>
    /\ inputFocused = FALSE
    /\ replyText = <<>>
    /\ replyColor = ""
    /\ sendDisabled = FALSE
    /\ bodyLight = FALSE
    /\ heroLight = FALSE
    /\ cmd = EmptyBag
    /\ launch = EmptyBag
    /\ uncaught = FALSE

\* the console at load, over a page of sections stacked one under the other
Init ==
    /\ InitConsole
    /\ sections = StackedLayout
    /\ scrollY = 0
    /\ active = {}
    /\ scrollGoal = <<>>

\* replyEl and the rejection flag after a handler ran to its end with r
Show(r) ==
    /\ replyText' = r.text
    /\ replyColor' = r.color
    /\ uncaught' = (uncaught \/ r.threw)

(***************************************************************************)
(* User actions on the input and the page chrome.                          *)
(***************************************************************************)
TypeInput(s) ==
    /\ inputFocused
    /\ inputValue' = s
    /\ UNCHANGED <<inputFocused, replyText, replyColor, sendDisabled,
                   bodyLight, heroLight, cmd, launch, uncaught>>
    /\ UNCHANGED navVars

\* the user moves the focus into or out of the input
SetFocus(b) ==
    /\ inputFocused # b
    /\ inputFocused' = b
    /\ UNCHANGED <<inputValue, replyText, replyColor, sendDisabled,
                   bodyLight, heroLight, cmd, launch, uncaught>>
    /\ UNCHANGED navVars

StartChatClick ==
    /\ inputFocused' = TRUE
    /\ UNCHANGED <<inputValue, replyText, replyColor, sendDisabled,
                   bodyLight, heroLight, cmd, launch, uncaught>>
    /\ UNCHANGED navVars

\* faulty variant: the class is added, not toggled
ToggleThemeAddsLight ==
    /\ bodyLight' = TRUE
    /\ heroLight' = TRUE
    /\ replyColor' = Accent(bodyLight')
    /\ UNCHANGED <<inputValue, inputFocused, replyText, sendDisabled,
                   cmd, launch, uncaught>>
    /\ UNCHANGED navVars

\* faulty variant: the toggle also clears the status area
ToggleThemeClearsReply ==
    /\ bodyLight' = ~bodyLight
    /\ heroLight' = ~heroLight
    /\ replyText' = <<>>
    /\ replyColor' = Accent(bodyLight')
    /\ UNCHANGED <<inputValue, inputFocused, sendDisabled,
                   cmd, launch, uncaught>>
    /\ UNCHANGED navVars

ToggleTheme ==
    /\ bodyLight' = ~bodyLight
    /\ heroLight' = ~heroLight
    /\ replyColor' = Accent(bodyLight')
    /\ UNCHANGED <<inputValue, inputFocused, replyText, sendDisabled,
                   cmd, launch, uncaught>>
    /\ UNCHANGED navVars

(***************************************************************************)
(* sendCmd.                                                                *)
(***************************************************************************)
\* sendCmd from its entry to the await of fetch, or to the early return
SendCmd ==
    LET c == Trim(inputValue) IN
    /\ IF c = <<>>
       THEN /\ Show(showReply(ValidationMsg, TRUE, bodyLight))
            /\ UNCHANGED <<sendDisabled, cmd>>
       ELSE /\ BagCardinality(cmd) < MaxCmdInFlight
            /\ Show(showReply(ThinkingMsg, FALSE, bodyLight))
            /\ sendDisabled' = TRUE
            /\ cmd' = cmd (+) SetToBag({Call("fetch", NoHead)})
    /\ UNCHANGED <<inputValue, inputFocused, bodyLight, heroLight, launch>>
    /\ UNCHANGED navVars

\* a disabled button dispatches no click
ClickSend == ~sendDisabled /\ SendCmd

\* the keydown listener of the input, on Enter
EnterKey == inputFocused /\ SendCmd

\* faulty variant: the placeholder is shown as soon as the response arrives
CmdFetchResolvesShows(c, head) ==
    /\ c \in Waiting(cmd) /\ c.pc = "fetch"
    /\ cmd' = Replace(cmd, c, {Call("text", head)})
    /\ Show(showReply(NoReplyMsg, FALSE, bodyLight))
    /\ UNCHANGED <<inputValue, inputFocused, sendDisabled, bodyLight,
                   heroLight, launch>>
    /\ UNCHANGED navVars

\* fetch resolves: sendCmd goes on to await res.text()
CmdFetchResolves(c, head) ==
    /\ c \in Waiting(cmd) /\ c.pc = "fetch"
    /\ cmd' = Replace(cmd, c, {Call("text", head)})
    /\ UNCHANGED <<inputValue, inputFocused, replyText, replyColor,
                   sendDisabled, bodyLight, heroLight, launch, uncaught>>
    /\ UNCHANGED navVars

\* catch and finally, after fetch or res.text() rejected with err
CmdFails(c, err) ==
    /\ cmd' = Replace(cmd, c, {})
    /\ Show(SendCmdCatch(err, bodyLight))
    /\ sendDisabled' = FALSE
    /\ UNCHANGED <<inputValue, inputFocused, bodyLight, heroLight, launch>>
    /\ UNCHANGED navVars

CmdFetchRejects(c, err) ==
    /\ c \in Waiting(cmd) /\ c.pc = "fetch"
    /\ CmdFails(c, err)

CmdBodyRejects(c, err) ==
    /\ c \in Waiting(cmd) /\ c.pc = "text"
    /\ CmdFails(c, err)

\* faulty variant: the reply is displayed only if no other command is in
\* flight
CmdBodyResolvesIfAlone(c, text) ==
    /\ c \in Waiting(cmd) /\ c.pc = "text"
    /\ cmd' = Replace(cmd, c, {})
    /\ IF BagCardinality(cmd) = 1
       THEN Show(SendCmdReply(c.res, text, bodyLight))
       ELSE UNCHANGED <<replyText, replyColor, uncaught>>
    /\ sendDisabled' = FALSE
    /\ UNCHANGED <<inputValue, inputFocused, bodyLight, heroLight, launch>>
    /\ UNCHANGED navVars

\* res.text() resolves: parse, display, finally
CmdBodyResolves(c, text) ==
    /\ c \in Waiting(cmd) /\ c.pc = "text"
    /\ cmd' = Replace(cmd, c, {})
    /\ Show(SendCmdReply(c.res, text, bodyLight))
    /\ sendDisabled' = FALSE
    /\ UNCHANGED <<inputValue, inputFocused, bodyLight, heroLight, launch>>
    /\ UNCHANGED navVars

(***************************************************************************)
(* The launch button.                                                      *)
(***************************************************************************)
LaunchClick ==
    /\ BagCardinality(launch) < MaxLaunchInFlight
    /\ Show(showReply(LaunchingMsg, FALSE, bodyLight))
    /\ launch' = launch (+) SetToBag({Call("fetch", NoHead)})
    /\ UNCHANGED <<inputValue, inputFocused, sendDisabled, bodyLight,
                   heroLight, cmd>>
    /\ UNCHANGED navVars

LaunchFetchResolves(c, head) ==
    /\ c \in Waiting(launch) /\ c.pc = "fetch"
    /\ launch' = Replace(launch, c, {Call("json", head)})
    /\ UNCHANGED <<inputValue, inputFocused, replyText, replyColor,
                   sendDisabled, bodyLight, heroLight, cmd, uncaught>>
    /\ UNCHANGED navVars

LaunchFails(c, err) ==
    /\ launch' = Replace(launch, c, {})
    /\ Show(LaunchCatch(err, bodyLight))
    /\ UNCHANGED <<inputValue, inputFocused, sendDisabled, bodyLight,
                   heroLight, cmd>>
    /\ UNCHANGED navVars

LaunchFetchRejects(c, err) ==
    /\ c \in Waiting(launch) /\ c.pc = "fetch"
    /\ LaunchFails(c, err)

LaunchBodyRejects(c, err) ==
    /\ c \in Waiting(launch) /\ c.pc = "json"
    /\ LaunchFails(c, err)

\* r.json() has the body text: parse, j.status, display (or catch)
LaunchBodyResolves(c, text) ==
    /\ c \in Waiting(launch) /\ c.pc = "json"
    /\ launch' = Replace(launch, c, {})
    /\ Show(LaunchReply(text, bodyLight))
    /\ UNCHANGED <<inputValue, inputFocused, sendDisabled, bodyLight,
                   heroLight, cmd>>
    /\ UNCHANGED navVars

Next ==
    \/ \E s \in Inputs : TypeInput(s)
    \/ \E b \in BOOLEAN : SetFocus(b)
    \/ StartChatClick
    \/ ToggleTheme
    \/ ClickSend
    \/ EnterKey
    \/ \E c \in Waiting(cmd), head \in Heads : CmdFetchResolves(c, head)
    \/ \E c \in Waiting(cmd), err \in FetchErrors : CmdFetchRejects(c, err)
    \/ \E c \in Waiting(cmd), text \in Bodies : CmdBodyResolves(c, text)
    \/ \E c \in Waiting(cmd), err \in BodyErrors : CmdBodyRejects(c, err)
    \/ LaunchClick
    \/ \E c \in Waiting(launch), head \in Heads : LaunchFetchResolves(c, head)
    \/ \E c \in Waiting(launch), err \in FetchErrors : LaunchFetchRejects(c, err)
    \/ \E c \in Waiting(launch), text \in Bodies : LaunchBodyResolves(c, text)
    \/ \E c \in Waiting(launch), err \in BodyErrors : LaunchBodyRejects(c, err)

Spec == Init /\ [][Next]_vars

(***************************************************************************)
(* The navigation listeners.  They share no variable with the console, so  *)
(* they are explored on their own, over every layout of the sections.      *)
(***************************************************************************)
\* the scroll listener, at a scroll event with window.scrollY = y
ScrollEvent(y) ==
    LET fromTop == y + SpyMargin IN
    /\ scrollY' = y
    /\ active' = { l \in Links : InView(sections[l], fromTop) }
    /\ UNCHANGED <<sections, scrollGoal>>
    /\ UNCHANGED <<inputValue, inputFocused, replyText, replyColor,
                   sendDisabled, bodyLight, heroLight, cmd, launch, uncaught>>

\* the click listener of a nav link
NavClick(l) ==
    /\ scrollGoal' = <<sections[l].top - NavOffset>>
    /\ UNCHANGED <<sections, scrollY, active>>
    /\ UNCHANGED <<inputValue, inputFocused, replyText, replyColor,
                   sendDisabled, bodyLight, heroLight, cmd, launch, uncaught>>

InitScroll ==
    /\ InitConsole
    /\ sections \in Layouts
    /\ scrollY = 0
    /\ active \in SUBSET Links
    /\ scrollGoal = <<>>

NextScroll ==
    \/ \E y \in ScrollYs : ScrollEvent(y)
    \/ \E l \in Links : NavClick(l)

SpecScroll == InitScroll /\ [][NextScroll]_vars

(***************************************************************************)
(* Steps and states the properties speak about.                            *)
(***************************************************************************)
IsBlank(s) == \A i \in 1..Len(s) : s[i] = " "

CmdInFlight == BagCardinality(cmd)
RequestPending == \E c \in Waiting(cmd) : c.pc = "fetch"

\* a submission by the button or by Enter
Submission == ClickSend \/ EnterKey

\* a step in which a sendCmd invocation ends
CmdSettles ==
    \/ \E c \in Waiting(cmd), err \in FetchErrors : CmdFetchRejects(c, err)
    \/ \E c \in Waiting(cmd), text \in Bodies : CmdBodyResolves(c, text)
    \/ \E c \in Waiting(cmd), err \in BodyErrors : CmdBodyRejects(c, err)

\* any step of command submission
CmdStep ==
    \/ Submission
    \/ \E c \in Waiting(cmd), head \in Heads : CmdFetchResolves(c, head)
    \/ CmdSettles

\* the steps of listeners and continuations that do not call showReply
QuietStep ==
    \/ \E s \in Inputs : TypeInput(s)
    \/ \E b \in BOOLEAN : SetFocus(b)
    \/ StartChatClick
    \/ ToggleTheme
    \/ \E c \in Waiting(cmd), head \in Heads : CmdFetchResolves(c, head)
    \/ \E c \in Waiting(launch), head \in Heads : LaunchFetchResolves(c, head)

\* C1: a submission of an empty or whitespace-only input issues no request
\* and leaves "Please type a command." in the error colour.
C1_BlankSubmissionValidates ==
    [][(IsBlank(inputValue) /\ Submission)
        => /\ cmd' = cmd
           /\ replyText' = ValidationMsg
           /\ replyColor' = ErrorColor]_vars

C1_Witness ==
    /\ inputValue = <<" ", " ">>
    /\ replyText = ValidationMsg
    /\ replyColor = ErrorColor
    /\ CmdInFlight = 0

\* C2: at most one /api/command request is in flight at any time.
C2_AtMostOneInFlight == CmdInFlight <= 1

\* C3: when a submission completes, on any exit path, the submit control
\* is enabled.
C3_EnabledAfterCompletion ==
    [][((IsBlank(inputValue) /\ Submission) \/ CmdSettles)
        => sendDisabled' = FALSE]_vars

\* C4: while a command request is in flight the submit control is disabled.
C4_DisabledWhileInFlight == (CmdInFlight > 0) => sendDisabled

\* C5: a success response with an empty body displays "(no reply)".
C5_EmptyBodyPlaceholder ==
    [][\A c \in Waiting(cmd) :
          (ResOk(c.res) /\ CmdBodyResolves(c, EmptyBody))
              => replyText' = NoReplyMsg]_vars

\* what C6 expects for each non-empty body: the reply field of a JSON body
\* that has one, the raw text otherwise
ExpectedSuccessText(text) ==
    CASE text = HelloBody -> <<W("Hello")>>
      [] text = BothBody -> <<W("boom")>>
      [] text = EmptyReplyBody -> <<>>
      [] OTHER -> text

\* C6: a success response with a non-empty body displays, not as an error,
\* the reply field of the parsed body if it has one and the raw text
\* otherwise; a body that is not JSON does not end the handler in its catch.
C6_SuccessDisplay ==
    [][\A c \in Waiting(cmd), text \in Bodies \ {EmptyBody} :
          (ResOk(c.res) /\ CmdBodyResolves(c, text))
              => /\ replyText' = ExpectedSuccessText(text)
                 /\ replyColor' = Accent(bodyLight)
                 /\ replyColor' # ErrorColor]_vars

C6_Witness ==
    /\ replyText = <<W("Hello")>>
    /\ replyColor # ErrorColor
    /\ CmdInFlight = 0

\* what C7 expects after the status code: the reply field, else the raw
\* text, else the status phrase
ExpectedFailureDetail(res, text) ==
    CASE text = HelloBody -> <<W("Hello")>>
      [] text = BothBody -> <<W("boom")>>
      [] text = EmptyBody -> res.statusText
      [] OTHER -> text

StatusDigits(res) ==
    CASE res.status = 200 -> "200"
      [] res.status = 404 -> "404"
      [] res.status = 500 -> "500"

\* C7: a failure response displays, in the error colour, the status code
\* with the reply field, else the raw text, else the status phrase.
C7_FailureDisplay ==
    [][\A c \in Waiting(cmd), text \in Bodies :
          (~ResOk(c.res) /\ CmdBodyResolves(c, text))
              => /\ replyText' =
                        <<W("Server error "), W(StatusDigits(c.res)), W(": ")>>
                        \o ExpectedFailureDetail(c.res, text)
                 /\ replyColor' = ErrorColor]_vars

C7_Witness ==
    /\ replyText = <<W("Server error "), W("500"), W(": "), W("boom")>>
    /\ replyColor = ErrorColor

\* C8: a rejected request with message m displays "Network error: " and m
\* in the error colour, and no error leaves the handler.
C8_NetworkErrorDisplay ==
    [][\A c \in Waiting(cmd), err \in FetchErrors :
          CmdFetchRejects(c, err)
              => /\ replyText' = <<W("Network error: ")>> \o err.message
                 /\ replyColor' = ErrorColor
                 /\ uncaught' = FALSE]_vars

C8_Witness ==
    /\ replyText = <<W("Network error: "), W("Failed to fetch")>>
    /\ replyColor = ErrorColor
    /\ ~uncaught

\* C9 as claimed: a toggle during a command writes nothing that command
\* submission writes.
C9_ToggleDisjoint ==
    [][(CmdInFlight > 0 /\ ToggleTheme)
        => UNCHANGED <<replyText, replyColor, sendDisabled, cmd>>]_vars

\* C9 as amended: a toggle and command submission share the status colour
\* (and the theme class showReply reads) and nothing else: a toggle leaves
\* the status text, the submit control and the requests alone, and no step
\* of command submission changes the theme classes.
C9_ToggleSharesOnlyColor ==
    [][/\ UNCHANGED <<replyText, sendDisabled, cmd, inputValue>> \/ ~ToggleTheme
       /\ UNCHANGED <<bodyLight, heroLight>> \/ ~CmdStep]_vars

C9_Witness ==
    /\ CmdInFlight > 0
    /\ bodyLight
    /\ replyText = ThinkingMsg
    /\ replyColor = LightAccent
    /\ sendDisabled

\* C10 as claimed: while a command's request has not settled the status
\* area shows the thinking status.
C10_ThinkingUntilSettled == RequestPending => replyText = ThinkingMsg

\* C10 as amended: while a command's request has not settled, the thinking
\* status stays through every step that does not call showReply (typing,
\* focus, start-chat, theme toggle, a response arriving).
C10_ThinkingThroughQuietSteps ==
    [][(RequestPending /\ replyText = ThinkingMsg /\ QuietStep)
        => replyText' = ThinkingMsg]_vars

C10_Witness ==
    /\ RequestPending
    /\ replyText = ThinkingMsg
    /\ IsBlank(inputValue)
    /\ bodyLight

\* any step of the launch handler
LaunchStep ==
    \/ LaunchClick
    \/ \E c \in Waiting(launch), head \in Heads : LaunchFetchResolves(c, head)
    \/ \E c \in Waiting(launch), err \in FetchErrors : LaunchFetchRejects(c, err)
    \/ \E c \in Waiting(launch), text \in Bodies : LaunchBodyResolves(c, text)
    \/ \E c \in Waiting(launch), err \in BodyErrors : LaunchBodyRejects(c, err)

\* the bodies that are a JSON object, and the status each should display
JsonObjectBodies ==
    { HelloBody, EmptyReplyBody, NullReplyBody, StatusBody, BothBody }

ExpectedLaunchText(text) ==
    CASE text = StatusBody -> <<W("Launched")>>
      [] OTHER -> LaunchIssuedMsg

\* C11 as claimed: whenever the request to /api/launch completes and its
\* body arrives, the status field or "Launch issued" is shown, not as an
\* error.
C11_CompletedLaunchShowsStatus ==
    [][\A c \in Waiting(launch), text \in Bodies :
          LaunchBodyResolves(c, text)
              => /\ replyText' = ExpectedLaunchText(text)
                 /\ replyColor' # ErrorColor]_vars

\* C11 as amended: a completed request whose body is a JSON object shows
\* its non-empty status field, else "Launch issued", whatever the HTTP
\* status; a body that is not JSON, or is JSON null, shows "Launch failed: "
\* and the error's message in the error colour, as a rejected request or
\* body does; no step of the launch handler changes the submit control.
C11_LaunchDisplay ==
    [][/\ (BagCardinality(launch') < BagCardinality(launch))
            => /\ \A c \in Waiting(launch), text \in Bodies :
                     LaunchBodyResolves(c, text)
                         => IF text \in JsonObjectBodies
                            THEN /\ replyText' = ExpectedLaunchText(text)
                                 /\ replyColor' = Accent(bodyLight)
                            ELSE /\ Len(replyText') = 2
                                 /\ replyText'[1] = W("Launch failed: ")
                                 /\ replyColor' = ErrorColor
               /\ \A c \in Waiting(launch),
                     err \in FetchErrors \cup BodyErrors :
                     (LaunchFetchRejects(c, err) \/ LaunchBodyRejects(c, err))
                         => /\ replyText' =
                                   <<W("Launch failed: ")>> \o err.message
                            /\ replyColor' = ErrorColor
       /\ (sendDisabled' = sendDisabled) \/ ~LaunchStep]_vars

C11_Witness ==
    /\ replyText = <<W("Launched")>>
    /\ replyColor # ErrorColor
    /\ sendDisabled
    /\ BagCardinality(launch) = 0

\* C12: two toggles return the theme class of the body and of the hero
\* container to what it was, whatever runs in between: every toggle flips
\* both classes, and no step other than a toggle changes either.
C12_ToggleTwiceRestores ==
    [][/\ ToggleTheme
            => /\ bodyLight' = ~bodyLight
               /\ heroLight' = ~heroLight
       /\ UNCHANGED <<bodyLight, heroLight>> \/ ToggleTheme]_vars

\* dark as at load, after a toggle away from the dark theme and one back:
\* the accent colour on an error text is written by the toggle to dark only
C12_Witness ==
    /\ ~bodyLight
    /\ ~heroLight
    /\ replyText = ValidationMsg
    /\ replyColor = DarkAccent

\* the status area shows one of the four error messages
ShowsError ==
    \/ replyText = ValidationMsg
    \/ /\ Len(replyText) >= 1
       /\ replyText[1] \in { W("Server error "), W("Network error: "),
                             W("Launch failed: ") }

\* C13: a displayed error message is in the error colour, in every state.
C13_ErrorKeepsErrorColor == ShowsError => replyColor = ErrorColor

\* the status area shows a message that is not one of the error messages
ShowsStatus == replyText # <<>> /\ ~ShowsError

\* C15: a displayed non-error message (thinking, launching, a reply, a
\* launch status) is in the accent colour of the active theme, in every
\* state.
C15_StatusInThemeAccent == ShowsStatus => replyColor = Accent(bodyLight)

C15_Witness ==
    /\ replyText = LaunchingMsg
    /\ BagCardinality(launch) > 0
    /\ bodyLight
    /\ replyColor = LightAccent

\* the requests in flight, command and launch
TotalInFlight == BagCardinality(cmd) + BagCardinality(launch)

\* the texts that are the outcome of a command response (for a success with
\* an empty body: the empty text or the placeholder, see C5)
CmdOutcomes(res, text) ==
    IF ~ResOk(res)
    THEN { <<W("Server error "), W(StatusDigits(res)), W(": ")>>
           \o ExpectedFailureDetail(res, text) }
    ELSE IF text = EmptyBody THEN { <<>>, NoReplyMsg }
    ELSE { ExpectedSuccessText(text) }

\* the texts that are the outcome of a launch response
LaunchOutcomes(text) ==
    IF text \in JsonObjectBodies THEN { ExpectedLaunchText(text) }
    ELSE { <<W("Launch failed: ")>> \o SyntaxErr.message,
           <<W("Launch failed: ")>> \o NullStatusErr.message }

\* what a sendCmd invocation waiting at c can display when it settles
CmdOutcomesAt(c) ==
    IF c.pc = "fetch"
    THEN { <<W("Network error: ")>> \o err.message : err \in FetchErrors }
    ELSE UNION { CmdOutcomes(c.res, text) : text \in Bodies }
         \cup { <<W("Network error: ")>> \o err.message : err \in BodyErrors }

\* what a launch handler waiting at c can display when it settles
LaunchOutcomesAt(c) ==
    IF c.pc = "fetch"
    THEN { <<W("Launch failed: ")>> \o err.message : err \in FetchErrors }
    ELSE UNION { LaunchOutcomes(text) : text \in Bodies }
         \cup { <<W("Launch failed: ")>> \o err.message : err \in BodyErrors }

\* the handlers of the bag calls that are no longer in the bag after
Left(calls, after) ==
    { c \in Waiting(calls) : CopiesIn(c, after) < CopiesIn(c, calls) }

\* C16: with any number of requests in flight, a step in which one settles
\* takes that one request out of flight, leaves every other waiting as it
\* was, and leaves an outcome of the settled request in the status area:
\* after the last one settles the status area shows the outcome of the
\* last, whatever order they were issued in.
C16_LastSettledShown ==
    [][(TotalInFlight' < TotalInFlight)
        => /\ TotalInFlight' = TotalInFlight - 1
           /\ \/ /\ launch' = launch
                 /\ \E c \in Left(cmd, cmd') :
                       /\ cmd' = Replace(cmd, c, {})
                       /\ replyText' \in CmdOutcomesAt(c)
              \/ /\ cmd' = cmd
                 /\ \E c \in Left(launch, launch') :
                       /\ launch' = Replace(launch, c, {})
                       /\ replyText' \in LaunchOutcomesAt(c)]_vars

\* a command's reply shown while another command is still in flight: the
\* two were in flight together (a submission or a launch click after the
\* reply would have replaced it)
C16_Witness ==
    /\ replyText = <<W("Hello")>>
    /\ CmdInFlight = 1
    /\ RequestPending

\* no two links' sections share a point
NonOverlapping ==
    \A l, m \in Links :
        l # m => \/ sections[l].top + sections[l].height <= sections[m].top
                 \/ sections[m].top + sections[m].height <= sections[l].top

\* C14: after a scroll event a link is active exactly if
\* offsetTop <= scrollY + 100 < offsetTop + offsetHeight for its section;
\* with non-overlapping sections at most one link is active.
C14_ScrollSpy ==
    [][\A y \in ScrollYs :
          ScrollEvent(y)
              => /\ \A l \in Links :
                       l \in active'
                           <=> /\ sections[l].top <= scrollY' + 100
                               /\ scrollY' + 100
                                      < sections[l].top + sections[l].height
                 /\ NonOverlapping => Cardinality(active') <= 1]_vars

\* scrolled to where the reference point is on the upper edge of the second
\* link's section and on the lower edge of the first's: only the second is
\* active
C14_Witness ==
    /\ scrollY = SpyMargin
    /\ sections[1] = Section(SpyMargin, SpyMargin)
    /\ sections[2] = Section(2 * SpyMargin, SpyMargin)
    /\ active = {2}

====
